---- MODULE Spec2Model ----
(***************************************************************************)
(* Model of the DS18B20 1-Wire manager (source/1wire_mgr.c).               *)
(*                                                                         *)
(* The periodic task wire_mgr_main is one step of the protocol engine.     *)
(* The bus primitives (WIRE_reset, WIRE_send_byte, WIRE_read_byte) and the *)
(* tick source are the environment: each step draws what they return from  *)
(* small sets.  The variable bus records the bus operations of the most    *)
(* recent step.                                                            *)
(*                                                                         *)
(* Time: the engine only ever uses the tick difference between the tick    *)
(* stored by handle_start_conversion and the tick read by                  *)
(* handle_wait_for_conversion, so the model keeps that difference          *)
(* (elapsed) instead of the two absolute 32-bit tick values.               *)
(***************************************************************************)
EXTENDS Integers, Sequences, FiniteSets, TLC

(* ---------------------------------------------------------------- bounds *)

\* Longest block calc_crc_block is applied to.
MaxBlock == 8

\* Failure outcomes (CRC, no presence, fake) the environment may cause.
MaxFaults == 2

\* Outcomes ReportOutcome may record in the bounded specifications.
MaxOutcomes == 3

\* elapsed saturates at conversion_time + Slack.
Slack == 1

(* ------------------------------------------------------------- constants *)

LOG_SUCCESS == 0
LOG_CRC_ERROR == 1
LOG_NO_PRESENCE_ERROR == 2
LOG_FAKE_SENSOR_ERROR == 3
LOG_SENTINEL == 4

READ_ROM == 51
SKIP_ROM == 204
CONVERT_T == 68
WRITE_SCRATCHPAD == 78
READ_SCRATCHPAD == 190

RESOLUTION_9BIT_MASK == 31
RESOLUTION_10BIT_MASK == 63
RESOLUTION_11BIT_MASK == 95
RESOLUTION_12BIT_MASK == 127

CONVERSION_TIME_9BIT == 94
CONVERSION_TIME_10BIT == 188
CONVERSION_TIME_11BIT == 375
CONVERSION_TIME_12BIT == 750

RESERVED1_VALUE == 255
RESERVED3_VALUE == 16
FAMILY_CODE == 40

WIRE_9BIT_RESOLUTION == 0
WIRE_10BIT_RESOLUTION == 1
WIRE_11BIT_RESOLUTION == 2
WIRE_12BIT_RESOLUTION == 3

\* uint8_t wire_mgr_log[]: the counters count modulo 2^8.
CounterModulus == 256

\* WIRE_state_t
WIRE_READ_ROM == "WIRE_READ_ROM"
WIRE_READ_SCRATCHPAD == "WIRE_READ_SCRATCHPAD"
WIRE_WRITE_SCRATCHPAD == "WIRE_WRITE_SCRATCHPAD"
START_CONVERSION == "START_CONVERSION"
WAIT_FOR_CONVERTION == "WAIT_FOR_CONVERTION"
READ_CONVERSION_RESULT == "READ_CONVERSION_RESULT"
LOG_CONVERSION_RESULT == "LOG_CONVERSION_RESULT"
WIRE_ERROR_STATE == "WIRE_ERROR_STATE"
WIRE_SENTINEL_STATE == "WIRE_SENTINEL_STATE"

WIRE_state_t ==
    { WIRE_READ_ROM, WIRE_READ_SCRATCHPAD, WIRE_WRITE_SCRATCHPAD,
      START_CONVERSION, WAIT_FOR_CONVERTION, READ_CONVERSION_RESULT,
      LOG_CONVERSION_RESULT, WIRE_ERROR_STATE, WIRE_SENTINEL_STATE }

\* WIRE_MGR_config_t: every configuration the header allows.
WIRE_MGR_config_t ==
    [ is_crc : BOOLEAN, is_fake_allowed : BOOLEAN,
      resolution : { WIRE_9BIT_RESOLUTION, WIRE_10BIT_RESOLUTION,
                     WIRE_11BIT_RESOLUTION, WIRE_12BIT_RESOLUTION } ]

(* ------------------------------------------------------- pure functions *)

\* Bit k of the byte x.
Bit(x, k) == (x \div (2 ^ k)) % 2

\* Bitwise exclusive or of two bytes, bit by bit.
XorBits(a, b) ==
    ((Bit(a, 0) + Bit(b, 0)) % 2)
    + 2 * ((Bit(a, 1) + Bit(b, 1)) % 2)
    + 4 * ((Bit(a, 2) + Bit(b, 2)) % 2)
    + 8 * ((Bit(a, 3) + Bit(b, 3)) % 2)
    + 16 * ((Bit(a, 4) + Bit(b, 4)) % 2)
    + 32 * ((Bit(a, 5) + Bit(b, 5)) % 2)
    + 64 * ((Bit(a, 6) + Bit(b, 6)) % 2)
    + 128 * ((Bit(a, 7) + Bit(b, 7)) % 2)

\* The exclusive or of every pair of bytes, computed once.
XorTable == [a \in 0..255 |-> [b \in 0..255 |-> XorBits(a, b)]]

\* crc ^ data on uint8_t.
Xor(a, b) == XorTable[a][b]

\* The lookup table of calc_crc.
table ==
    << 0, 94, 188, 226, 97, 63, 221, 131, 194, 156, 126, 32, 163, 253, 31, 65,
       157, 195, 33, 127, 252, 162, 64, 30, 95, 1, 227, 189, 62, 96, 130, 220,
       35, 125, 159, 193, 66, 28, 254, 160, 225, 191, 93, 3, 128, 222, 60, 98,
       190, 224, 2, 92, 223, 129, 99, 61, 124, 34, 192, 158, 29, 67, 161, 255,
       70, 24, 250, 164, 39, 121, 155, 197, 132, 218, 56, 102, 229, 187, 89, 7,
       219, 133, 103, 57, 186, 228, 6, 88, 25, 71, 165, 251, 120, 38, 196, 154,
       101, 59, 217, 135, 4, 90, 184, 230, 167, 249, 27, 69, 198, 152, 122, 36,
       248, 166, 68, 26, 153, 199, 37, 123, 58, 100, 134, 216, 91, 5, 231, 185,
       140, 210, 48, 110, 237, 179, 81, 15, 78, 16, 242, 172, 47, 113, 147, 205,
       17, 79, 173, 243, 112, 46, 204, 146, 211, 141, 111, 49, 178, 236, 14, 80,
       175, 241, 19, 77, 206, 144, 114, 44, 109, 51, 209, 143, 12, 82, 176, 238,
       50, 108, 142, 208, 83, 13, 239, 177, 240, 174, 76, 18, 145, 207, 45, 115,
       202, 148, 118, 40, 171, 245, 23, 73, 8, 86, 180, 234, 105, 55, 213, 139,
       87, 9, 235, 181, 54, 104, 138, 212, 149, 203, 41, 119, 244, 170, 72, 22,
       233, 183, 85, 11, 136, 214, 52, 106, 43, 117, 151, 201, 74, 20, 246, 168,
       116, 42, 200, 150, 21, 75, 169, 247, 182, 232, 10, 84, 215, 137, 107, 53 >>

\* Mutant: the running CRC is not folded into the table index.
calc_crc_unchained(crc, data) == table[data + 1]

\* calc_crc: table[crc ^ data] (the tuple is indexed from 1).
calc_crc(crc, data) == table[Xor(crc, data) + 1]

RECURSIVE calc_crc_from(_, _, _, _)
\* The loop of calc_crc_block from index i: a do-while, so the byte at i is
\* always folded, then the loop goes on while bytes remain.
calc_crc_from(crc, buffer, i, length) ==
    LET ret == calc_crc(crc, buffer[i])
    IN  IF i < length THEN calc_crc_from(ret, buffer, i + 1, length) ELSE ret

\* calc_crc_block over buffer[1..length].
calc_crc_block(crc, buffer, length) == calc_crc_from(crc, buffer, 1, length)

\* is_crc_valid: the fold from seed 0 equals the expected CRC byte.
is_crc_valid(buffer, size, exp_crc) == calc_crc_block(0, buffer, size) = exp_crc

is_reserved_values_valid(res1, res3) ==
    (res1 = RESERVED1_VALUE) /\ (res3 = RESERVED3_VALUE)

\* Mutant: the cast to int16_t is lost, the value stays unsigned.
get_temperature_unsigned(msb, lsb) == msb * 256 + lsb

\* (int16_t)(((uint16_t)msb << CHAR_BIT) | lsb)
get_temperature(msb, lsb) ==
    LET u == msb * 256 + lsb
    IN  IF u >= 32768 THEN u - 65536 ELSE u

get_resolution_conv_time(resolution) ==
    CASE resolution = WIRE_9BIT_RESOLUTION -> CONVERSION_TIME_9BIT
      [] resolution = WIRE_10BIT_RESOLUTION -> CONVERSION_TIME_10BIT
      [] resolution = WIRE_11BIT_RESOLUTION -> CONVERSION_TIME_11BIT
      [] resolution = WIRE_12BIT_RESOLUTION -> CONVERSION_TIME_12BIT
      [] OTHER -> CONVERSION_TIME_9BIT

get_resolution_mask(resolution) ==
    CASE resolution = WIRE_9BIT_RESOLUTION -> RESOLUTION_9BIT_MASK
      [] resolution = WIRE_10BIT_RESOLUTION -> RESOLUTION_10BIT_MASK
      [] resolution = WIRE_11BIT_RESOLUTION -> RESOLUTION_11BIT_MASK
      [] resolution = WIRE_12BIT_RESOLUTION -> RESOLUTION_12BIT_MASK
      [] OTHER -> RESOLUTION_9BIT_MASK

\* Fields of the two memory images (the unions' struct views; 1-based).
family_code(rom) == rom[1]
serial_no(rom, k) == rom[2 + k]
rom_crc(rom) == rom[8]
temp_lsb(sp) == sp[1]
temp_msb(sp) == sp[2]
th(sp) == sp[3]
tl(sp) == sp[4]
reserved1(sp) == sp[6]
reserved3(sp) == sp[8]
scratchpad_crc(sp) == sp[9]

(* ------------------------------------------------------------------ state *)

VARIABLES
    cfg,              \* wire_mgr_config (read-only after initialization)
    state,            \* static WIRE_state_t state
    old_state,        \* static WIRE_state_t old_state
    is_sensor_ready,  \* static bool is_sensor_ready
    result,           \* static uint8_t result
    wire_mgr_log,     \* static uint8_t wire_mgr_log[LOG_SENTINEL]
    temperature,      \* static int16_t temperature
    conversion_time,  \* static uint16_t conversion_time
    elapsed,          \* tick difference since start_conv_time, as last read
    scratchpad,       \* static WIRE_scratchpad_space_t scratchpad (raw bytes)
    rom_code,         \* static WIRE_rom_code_space_t rom_code (raw bytes)
    bus,              \* bus operations performed by the most recent step
    assert_failed,    \* an ASSERT(false) branch has been executed
    begun,            \* history: a step has been taken in START_CONVERSION
    converted,        \* history: a CONVERT_T command has been sent
    programmed,       \* history: number of WRITE_SCRATCHPAD commands sent
    collected,        \* history: a READ_CONVERSION_RESULT step ended in success
    collected_reading,\* history: <<temp_msb, temp_lsb>> read by the last such step
    pending,          \* the step interrupted while it stores temperature, if any
    reader,           \* the call of WIRE_MGR_get_temperature in progress
    composed,         \* history: the values get_temperature has returned
    block,            \* calc_crc_block: the bytes of buffer folded so far
    block_crc         \* calc_crc_block: ret after folding block

vars ==
    << cfg, state, old_state, is_sensor_ready, result, wire_mgr_log,
       temperature, conversion_time, elapsed, scratchpad, rom_code, bus,
       assert_failed, begun, converted, programmed, collected,
       collected_reading, pending, reader, composed, block, block_crc >>

(* ------------------------------------------------------------ environment *)

\* One bus operation of a step.
Reset(p) == [op |-> "reset", val |-> IF p THEN 1 ELSE 0]
Send(b) == [op |-> "send", val |-> b]
Read(b) == [op |-> "read", val |-> b]

\* read_bytes: the bytes the device returns, one WIRE_read_byte each.
read_bytes(image) == [i \in 1..Len(image) |-> Read(image[i])]

\* A payload followed by its Dallas/Maxim CRC byte, as a genuine device sends it.
WithCrc(payload) == Append(payload, calc_crc_block(0, payload, Len(payload)))

\* The same image with its trailing CRC byte damaged on the wire.
Corrupted(image) ==
    [image EXCEPT ![Len(image)] = (image[Len(image)] + 1) % 256]

GenuineRom == WithCrc(<<FAMILY_CODE, 1, 2, 3, 4, 0, 0>>)

\* Identification codes a device may answer with: genuine, a foreign family,
\* non-zero high serial bytes, and a genuine code with a damaged CRC.
RomInputs ==
    { GenuineRom,
      WithCrc(<<16, 1, 2, 3, 4, 0, 0>>),
      WithCrc(<<FAMILY_CODE, 1, 2, 3, 4, 5, 0>>),
      WithCrc(<<FAMILY_CODE, 1, 2, 3, 4, 0, 7>>),
      Corrupted(GenuineRom) }

\* 85.0 (0x0550) with the power-on alarm bytes.
GenuineScratchpad == WithCrc(<<80, 5, 75, 70, 127, 255, 0, 16>>)

\* Scratchpads a device may answer with: two genuine readings (one negative,
\* with other alarm bytes), wrong reserved bytes, and damaged CRCs.
ScratchpadInputs ==
    { GenuineScratchpad,
      WithCrc(<<94, 255, 30, 246, 127, 255, 0, 16>>),
      WithCrc(<<80, 5, 75, 70, 127, 0, 0, 16>>),
      WithCrc(<<80, 5, 75, 70, 127, 255, 0, 0>>),
      Corrupted(GenuineScratchpad),
      Corrupted(WithCrc(<<80, 5, 75, 70, 127, 0, 0, 16>>)) }

\* Ticks that pass between two reads of the tick source.
TickSteps == { CONVERSION_TIME_9BIT, CONVERSION_TIME_11BIT }


\* Tick differences beyond the budget are all alike to the engine: the model
\* stops counting Slack ticks above conversion_time.
MaxElapsed == conversion_time + Slack

Min(a, b) == IF a < b THEN a ELSE b

(* --------------------------------------------------------------- handlers *)

\* What a handler reads and may write, with new_state as wire_mgr_main
\* declares it and no bus operation performed yet.
Cur ==
    [ new_state |-> WIRE_SENTINEL_STATE,
      is_sensor_ready |-> is_sensor_ready,
      result |-> result,
      wire_mgr_log |-> wire_mgr_log,
      temperature |-> temperature,
      elapsed |-> elapsed,
      scratchpad |-> scratchpad,
      rom_code |-> rom_code,
      bus |-> << >>,
      assert_failed |-> assert_failed ]

\* read_scratchpad_bytes
read_scratchpad_bytes(c, in) ==
    [c EXCEPT !.bus = @ \o <<Send(SKIP_ROM), Send(READ_SCRATCHPAD)>>
                        \o read_bytes(in.sp),
              !.scratchpad = in.sp]

\* Mutant: the CRC of the identification code is checked whatever is_crc says.
handle_read_rom_unconditional(c, in) ==
    LET r == [c EXCEPT !.bus = @ \o <<Send(READ_ROM)>> \o read_bytes(in.rom),
                       !.rom_code = in.rom]
        rom == r.rom_code
    IN  IF ~is_crc_valid(rom, 7, rom_crc(rom))
        THEN [r EXCEPT !.result = LOG_CRC_ERROR,
                       !.new_state = LOG_CONVERSION_RESULT]
        ELSE IF /\ \/ family_code(rom) # FAMILY_CODE
                   \/ serial_no(rom, 4) # 0
                   \/ serial_no(rom, 5) # 0
                /\ ~cfg.is_fake_allowed
        THEN [r EXCEPT !.result = LOG_FAKE_SENSOR_ERROR,
                       !.new_state = LOG_CONVERSION_RESULT]
        ELSE [r EXCEPT !.new_state = WIRE_READ_SCRATCHPAD]

handle_read_rom(c, in) ==
    LET r == [c EXCEPT !.bus = @ \o <<Send(READ_ROM)>> \o read_bytes(in.rom),
                       !.rom_code = in.rom]
        rom == r.rom_code
    IN  IF cfg.is_crc /\ ~is_crc_valid(rom, 7, rom_crc(rom))
        THEN [r EXCEPT !.result = LOG_CRC_ERROR,
                       !.new_state = LOG_CONVERSION_RESULT]
        ELSE IF /\ \/ family_code(rom) # FAMILY_CODE
                   \/ serial_no(rom, 4) # 0
                   \/ serial_no(rom, 5) # 0
                /\ ~cfg.is_fake_allowed
        THEN [r EXCEPT !.result = LOG_FAKE_SENSOR_ERROR,
                       !.new_state = LOG_CONVERSION_RESULT]
        ELSE [r EXCEPT !.new_state = WIRE_READ_SCRATCHPAD]

\* Mutant: the opportunistic temperature of the acquisition read is published.
handle_read_scratchpad_publishing(c, in) ==
    LET r == read_scratchpad_bytes(c, in)
        sp == r.scratchpad
    IN  IF cfg.is_crc /\ ~is_crc_valid(sp, 8, scratchpad_crc(sp))
        THEN [r EXCEPT !.result = LOG_CRC_ERROR,
                       !.new_state = LOG_CONVERSION_RESULT]
        ELSE IF /\ ~is_reserved_values_valid(reserved1(sp), reserved3(sp))
                /\ ~cfg.is_fake_allowed
        THEN [r EXCEPT !.result = LOG_FAKE_SENSOR_ERROR,
                       !.new_state = LOG_CONVERSION_RESULT]
        ELSE [r EXCEPT !.temperature = get_temperature(temp_msb(sp), temp_lsb(sp)),
                       !.is_sensor_ready = TRUE,
                       !.new_state = WIRE_WRITE_SCRATCHPAD]

\* Mutant: wrong reserved bytes are rejected whatever is_fake_allowed says.
handle_read_scratchpad_strict(c, in) ==
    LET r == read_scratchpad_bytes(c, in)
        sp == r.scratchpad
    IN  IF cfg.is_crc /\ ~is_crc_valid(sp, 8, scratchpad_crc(sp))
        THEN [r EXCEPT !.result = LOG_CRC_ERROR,
                       !.new_state = LOG_CONVERSION_RESULT]
        ELSE IF ~is_reserved_values_valid(reserved1(sp), reserved3(sp))
        THEN [r EXCEPT !.result = LOG_FAKE_SENSOR_ERROR,
                       !.new_state = LOG_CONVERSION_RESULT]
        ELSE [r EXCEPT !.temperature = get_temperature(temp_msb(sp), temp_lsb(sp)),
                       !.new_state = WIRE_WRITE_SCRATCHPAD]

handle_read_scratchpad(c, in) ==
    LET r == read_scratchpad_bytes(c, in)
        sp == r.scratchpad
    IN  IF cfg.is_crc /\ ~is_crc_valid(sp, 8, scratchpad_crc(sp))
        THEN [r EXCEPT !.result = LOG_CRC_ERROR,
                       !.new_state = LOG_CONVERSION_RESULT]
        ELSE IF /\ ~is_reserved_values_valid(reserved1(sp), reserved3(sp))
                /\ ~cfg.is_fake_allowed
        THEN [r EXCEPT !.result = LOG_FAKE_SENSOR_ERROR,
                       !.new_state = LOG_CONVERSION_RESULT]
        ELSE [r EXCEPT !.temperature = get_temperature(temp_msb(sp), temp_lsb(sp)),
                       !.new_state = WIRE_WRITE_SCRATCHPAD]

\* Mutant: the two alarm bytes are written back in the wrong order.
handle_write_scratchpad_swapped(c, in) ==
    [c EXCEPT !.bus = @ \o << Send(SKIP_ROM), Send(WRITE_SCRATCHPAD),
                              Send(tl(c.scratchpad)), Send(th(c.scratchpad)),
                              Send(get_resolution_mask(cfg.resolution)) >>,
              !.new_state = START_CONVERSION]

handle_write_scratchpad(c, in) ==
    [c EXCEPT !.bus = @ \o << Send(SKIP_ROM), Send(WRITE_SCRATCHPAD),
                              Send(th(c.scratchpad)), Send(tl(c.scratchpad)),
                              Send(get_resolution_mask(cfg.resolution)) >>,
              !.new_state = START_CONVERSION]

handle_start_conversion(c, in) ==
    [c EXCEPT !.bus = @ \o <<Send(SKIP_ROM), Send(CONVERT_T)>>,
              !.elapsed = 0,
              !.new_state = WAIT_FOR_CONVERTION]

\* Mutant: the operands of the budget comparison are swapped.
handle_wait_for_conversion_swapped(c, in) ==
    LET diff == Min(c.elapsed + in.d, MaxElapsed)
    IN  [c EXCEPT !.elapsed = diff,
                  !.new_state = IF conversion_time > diff
                                THEN READ_CONVERSION_RESULT
                                ELSE WAIT_FOR_CONVERTION]

\* Mutant: the budget comparison is not strict.
handle_wait_for_conversion_inclusive(c, in) ==
    LET diff == Min(c.elapsed + in.d, MaxElapsed)
    IN  [c EXCEPT !.elapsed = diff,
                  !.new_state = IF diff >= conversion_time
                                THEN READ_CONVERSION_RESULT
                                ELSE WAIT_FOR_CONVERTION]

handle_wait_for_conversion(c, in) ==
    LET diff == Min(c.elapsed + in.d, MaxElapsed)
    IN  [c EXCEPT !.elapsed = diff,
                  !.new_state = IF diff > conversion_time
                                THEN READ_CONVERSION_RESULT
                                ELSE WAIT_FOR_CONVERTION]

\* Mutant: a CRC error of the result read withdraws the readiness.
handle_read_conversion_results_clearing(c, in) ==
    LET r == read_scratchpad_bytes(c, in)
        sp == r.scratchpad
    IN  IF cfg.is_crc /\ ~is_crc_valid(sp, 8, scratchpad_crc(sp))
        THEN [r EXCEPT !.result = LOG_CRC_ERROR,
                       !.is_sensor_ready = FALSE,
                       !.new_state = LOG_CONVERSION_RESULT]
        ELSE [r EXCEPT !.temperature = get_temperature(temp_msb(sp), temp_lsb(sp)),
                       !.result = LOG_SUCCESS,
                       !.is_sensor_ready = TRUE,
                       !.new_state = LOG_CONVERSION_RESULT]

\* Mutant: temperature is stored before the CRC of the result read is checked.
handle_read_conversion_results_eager(c, in) ==
    LET r == read_scratchpad_bytes(c, in)
        sp == r.scratchpad
        t == get_temperature(temp_msb(sp), temp_lsb(sp))
    IN  IF cfg.is_crc /\ ~is_crc_valid(sp, 8, scratchpad_crc(sp))
        THEN [r EXCEPT !.temperature = t,
                       !.result = LOG_CRC_ERROR,
                       !.new_state = LOG_CONVERSION_RESULT]
        ELSE [r EXCEPT !.temperature = t,
                       !.result = LOG_SUCCESS,
                       !.is_sensor_ready = TRUE,
                       !.new_state = LOG_CONVERSION_RESULT]

\* Mutant: a successful result read does not store the temperature.
handle_read_conversion_results_stale(c, in) ==
    LET r == read_scratchpad_bytes(c, in)
        sp == r.scratchpad
    IN  IF cfg.is_crc /\ ~is_crc_valid(sp, 8, scratchpad_crc(sp))
        THEN [r EXCEPT !.result = LOG_CRC_ERROR,
                       !.new_state = LOG_CONVERSION_RESULT]
        ELSE [r EXCEPT !.result = LOG_SUCCESS,
                       !.is_sensor_ready = TRUE,
                       !.new_state = LOG_CONVERSION_RESULT]

handle_read_conversion_results(c, in) ==
    LET r == read_scratchpad_bytes(c, in)
        sp == r.scratchpad
    IN  IF cfg.is_crc /\ ~is_crc_valid(sp, 8, scratchpad_crc(sp))
        THEN [r EXCEPT !.result = LOG_CRC_ERROR,
                       !.new_state = LOG_CONVERSION_RESULT]
        ELSE [r EXCEPT !.temperature = get_temperature(temp_msb(sp), temp_lsb(sp)),
                       !.result = LOG_SUCCESS,
                       !.is_sensor_ready = TRUE,
                       !.new_state = LOG_CONVERSION_RESULT]

\* wire_mgr_log[k]++ on a uint8_t.
Increment(log, k) == [log EXCEPT ![k] = (@ + 1) % CounterModulus]

\* Mutant: every failure outcome restarts the acquisition.
handle_log_conversion_results_reacquire(c) ==
    LET r == IF c.result \in 0..(LOG_SENTINEL - 1)
             THEN [c EXCEPT !.wire_mgr_log = Increment(@, c.result)]
             ELSE [c EXCEPT !.assert_failed = TRUE]
    IN  IF old_state \in {WIRE_SENTINEL_STATE, WIRE_READ_ROM}
        THEN [r EXCEPT !.new_state = IF r.result = LOG_FAKE_SENSOR_ERROR
                                     THEN WIRE_ERROR_STATE
                                     ELSE WIRE_READ_ROM]
        ELSE [r EXCEPT !.new_state = IF r.result = LOG_SUCCESS
                                     THEN START_CONVERSION
                                     ELSE WIRE_READ_ROM]

\* Mutant: a fake-sensor rejection is escalated whatever state raised it.
handle_log_conversion_results_escalating(c) ==
    LET r == IF c.result \in 0..(LOG_SENTINEL - 1)
             THEN [c EXCEPT !.wire_mgr_log = Increment(@, c.result)]
             ELSE [c EXCEPT !.assert_failed = TRUE]
    IN  IF r.result = LOG_FAKE_SENSOR_ERROR
        THEN [r EXCEPT !.new_state = WIRE_ERROR_STATE]
        ELSE IF old_state \in {WIRE_SENTINEL_STATE, WIRE_READ_ROM}
        THEN [r EXCEPT !.new_state = WIRE_READ_ROM]
        ELSE [r EXCEPT !.new_state = START_CONVERSION]

handle_log_conversion_results(c) ==
    LET r == IF c.result \in 0..(LOG_SENTINEL - 1)
             THEN [c EXCEPT !.wire_mgr_log = Increment(@, c.result)]
             ELSE [c EXCEPT !.assert_failed = TRUE]
    IN  IF old_state \in {WIRE_SENTINEL_STATE, WIRE_READ_ROM}
        THEN [r EXCEPT !.new_state = IF r.result = LOG_FAKE_SENSOR_ERROR
                                     THEN WIRE_ERROR_STATE
                                     ELSE WIRE_READ_ROM]
        ELSE [r EXCEPT !.new_state = START_CONVERSION]

\* Mutant: the error state retries the acquisition by itself.
handle_error_state_retrying(c) ==
    [c EXCEPT !.is_sensor_ready = FALSE, !.new_state = WIRE_READ_ROM]

handle_error_state(c) ==
    [c EXCEPT !.is_sensor_ready = FALSE, !.new_state = WIRE_ERROR_STATE]

\* Mutant: a reset without presence is tried once more in the same step.
handle_reset_needed_state_retry(c, s, in) ==
    LET r == [c EXCEPT !.bus = @ \o <<Reset(in.presence)>>]
    IN  IF in.presence
        THEN CASE s = WIRE_READ_ROM -> handle_read_rom(r, in)
               [] s = WIRE_READ_SCRATCHPAD -> handle_read_scratchpad(r, in)
               [] s = WIRE_WRITE_SCRATCHPAD -> handle_write_scratchpad(r, in)
               [] s = START_CONVERSION -> handle_start_conversion(r, in)
               [] s = READ_CONVERSION_RESULT -> handle_read_conversion_results(r, in)
               [] OTHER -> [r EXCEPT !.assert_failed = TRUE,
                                     !.new_state = WIRE_READ_ROM]
        ELSE [r EXCEPT !.bus = @ \o <<Reset(in.presence)>>,
                       !.result = LOG_NO_PRESENCE_ERROR,
                       !.new_state = LOG_CONVERSION_RESULT]

handle_reset_needed_state(c, s, in) ==
    LET r == [c EXCEPT !.bus = @ \o <<Reset(in.presence)>>]
    IN  IF in.presence
        THEN CASE s = WIRE_READ_ROM -> handle_read_rom(r, in)
               [] s = WIRE_READ_SCRATCHPAD -> handle_read_scratchpad(r, in)
               [] s = WIRE_WRITE_SCRATCHPAD -> handle_write_scratchpad(r, in)
               [] s = START_CONVERSION -> handle_start_conversion(r, in)
               [] s = READ_CONVERSION_RESULT -> handle_read_conversion_results(r, in)
               [] OTHER -> [r EXCEPT !.assert_failed = TRUE,
                                     !.new_state = WIRE_READ_ROM]
        ELSE [r EXCEPT !.result = LOG_NO_PRESENCE_ERROR,
                       !.new_state = LOG_CONVERSION_RESULT]

\* Mutant: the case label of WAIT_FOR_CONVERTION sits in the group of the
\* states that need a reset.
Dispatch_fallthrough(in) ==
    CASE state \in { WIRE_READ_ROM, WIRE_READ_SCRATCHPAD, WIRE_WRITE_SCRATCHPAD,
                     START_CONVERSION, READ_CONVERSION_RESULT,
                     WAIT_FOR_CONVERTION }
            -> handle_reset_needed_state(Cur, state, in)
      [] state = LOG_CONVERSION_RESULT -> handle_log_conversion_results(Cur)
      [] state = WIRE_ERROR_STATE -> handle_error_state(Cur)
      [] OTHER -> [Cur EXCEPT !.assert_failed = TRUE]

\* The switch of wire_mgr_main: the handler of the current state.
Dispatch(in) ==
    CASE state \in { WIRE_READ_ROM, WIRE_READ_SCRATCHPAD, WIRE_WRITE_SCRATCHPAD,
                     START_CONVERSION, READ_CONVERSION_RESULT }
            -> handle_reset_needed_state(Cur, state, in)
      [] state = WAIT_FOR_CONVERTION -> handle_wait_for_conversion(Cur, in)
      [] state = LOG_CONVERSION_RESULT -> handle_log_conversion_results(Cur)
      [] state = WIRE_ERROR_STATE -> handle_error_state(Cur)
      [] OTHER -> [Cur EXCEPT !.assert_failed = TRUE]

\* 1 when the bus trace b is a reset with presence, SKIP_ROM and the function
\* command cmd, else 0.
Commands(b, cmd) ==
    IF Len(b) >= 3 /\ b[1] = Reset(TRUE) /\ b[2] = Send(SKIP_ROM) /\ b[3] = Send(cmd)
    THEN 1 ELSE 0

\* The effect of one invocation of the task function whose handler returned
\* r, on the statics and the history of the engine.
Commit(r, in) ==
        /\ old_state' = state
        /\ state' = r.new_state
        /\ is_sensor_ready' = r.is_sensor_ready
        /\ result' = r.result
        /\ wire_mgr_log' = r.wire_mgr_log
        /\ temperature' = r.temperature
        /\ elapsed' = r.elapsed
        /\ scratchpad' = r.scratchpad
        /\ rom_code' = r.rom_code
        /\ bus' = r.bus
        /\ assert_failed' = r.assert_failed
        /\ begun' = (begun \/ state = START_CONVERSION)
        /\ converted' = (converted \/ Commands(r.bus, CONVERT_T) > 0)
        /\ programmed' = programmed + Commands(r.bus, WRITE_SCRATCHPAD)
        /\ collected' = (collected \/ (/\ state = READ_CONVERSION_RESULT
                                       /\ r.new_state = LOG_CONVERSION_RESULT
                                       /\ r.result = LOG_SUCCESS
                                       /\ in.presence))
        /\ collected_reading' =
              IF /\ state = READ_CONVERSION_RESULT
                 /\ r.new_state = LOG_CONVERSION_RESULT
                 /\ r.result = LOG_SUCCESS
                 /\ in.presence
              THEN <<temp_msb(r.scratchpad), temp_lsb(r.scratchpad)>>
              ELSE collected_reading
        /\ UNCHANGED <<cfg, conversion_time, block, block_crc>>

\* One invocation of the task function with the environment's input in, not
\* interrupted.
wire_mgr_main(in) ==
    \E r \in {Dispatch(in)} :
        Commit(r, in) /\ UNCHANGED <<pending, reader, composed>>

\* WIRE_MGR_get_temperature: the return value and, when it is true, *out.
WIRE_MGR_get_temperature ==
    IF is_sensor_ready
    THEN [ret |-> TRUE, out |-> <<temperature>>]
    ELSE [ret |-> FALSE, out |-> << >>]

(* ---------------------------------------------------------- specification *)

\* The statics as the C start-up leaves them, after WIRE_MGR_initialize.
Init ==
    /\ cfg \in WIRE_MGR_config_t
    /\ state = WIRE_READ_ROM
    /\ old_state = WIRE_SENTINEL_STATE
    /\ is_sensor_ready = FALSE
    /\ result = 0
    /\ wire_mgr_log = [k \in 0..(LOG_SENTINEL - 1) |-> 0]
    /\ temperature = 0
    /\ conversion_time = get_resolution_conv_time(cfg.resolution)
    /\ elapsed = 0
    /\ scratchpad = [i \in 1..9 |-> 0]
    /\ rom_code = [i \in 1..8 |-> 0]
    /\ bus = << >>
    /\ assert_failed = FALSE
    /\ begun = FALSE
    /\ converted = FALSE
    /\ programmed = 0
    /\ collected = FALSE
    /\ collected_reading = << >>
    /\ pending = << >>
    /\ reader = [pc |-> "idle", lo |-> -1, hi |-> -1]
    /\ composed = {}
    /\ block = << >>
    /\ block_crc = 0

\* Outcomes recorded so far, and failure outcomes raised so far (recorded or
\* waiting in result for the LOG_CONVERSION_RESULT step).
Logged ==
    wire_mgr_log[LOG_SUCCESS] + wire_mgr_log[LOG_CRC_ERROR]
    + wire_mgr_log[LOG_NO_PRESENCE_ERROR] + wire_mgr_log[LOG_FAKE_SENSOR_ERROR]

Failures ==
    wire_mgr_log[LOG_CRC_ERROR] + wire_mgr_log[LOG_NO_PRESENCE_ERROR]
    + wire_mgr_log[LOG_FAKE_SENSOR_ERROR]
    + (IF state = LOG_CONVERSION_RESULT /\ result # LOG_SUCCESS THEN 1 ELSE 0)

\* The bounded environment: at most MaxFaults failures, MaxOutcomes records.
Bounded == Failures <= MaxFaults /\ Logged <= MaxOutcomes

\* The environment's answer where a step does not ask for it.
NoInput ==
    [ presence |-> FALSE, rom |-> GenuineRom, sp |-> GenuineScratchpad, d |-> 0 ]

ReadRom ==
    /\ state = WIRE_READ_ROM
    /\ \E p \in BOOLEAN, rom \in RomInputs :
          wire_mgr_main([NoInput EXCEPT !.presence = p, !.rom = rom]) /\ Bounded'

ReadScratchpad ==
    /\ state = WIRE_READ_SCRATCHPAD
    /\ \E p \in BOOLEAN, sp \in ScratchpadInputs :
          wire_mgr_main([NoInput EXCEPT !.presence = p, !.sp = sp]) /\ Bounded'

WriteScratchpad ==
    /\ state = WIRE_WRITE_SCRATCHPAD
    /\ \E p \in BOOLEAN :
          wire_mgr_main([NoInput EXCEPT !.presence = p]) /\ Bounded'

StartConversion ==
    /\ state = START_CONVERSION
    /\ \E p \in BOOLEAN :
          wire_mgr_main([NoInput EXCEPT !.presence = p]) /\ Bounded'

WaitForConversion ==
    /\ state = WAIT_FOR_CONVERTION
    /\ \E d \in TickSteps :
          wire_mgr_main([NoInput EXCEPT !.d = d]) /\ Bounded'

ReadConversionResult ==
    /\ state = READ_CONVERSION_RESULT
    /\ \E p \in BOOLEAN, sp \in ScratchpadInputs :
          wire_mgr_main([NoInput EXCEPT !.presence = p, !.sp = sp]) /\ Bounded'

LogConversionResult ==
    /\ state = LOG_CONVERSION_RESULT
    /\ wire_mgr_main(NoInput) /\ Bounded'

ErrorState ==
    /\ state = WIRE_ERROR_STATE
    /\ wire_mgr_main(NoInput) /\ Bounded'

Next ==
    \/ ReadRom
    \/ ReadScratchpad
    \/ WriteScratchpad
    \/ StartConversion
    \/ WaitForConversion
    \/ ReadConversionResult
    \/ LogConversionResult
    \/ ErrorState

Spec == Init /\ [][Next]_vars

\* The scheduler invokes the registered task again and again.
SpecLive == Spec /\ WF_vars(Next)

\* A long run on a healthy bus with a genuine device: every reset sees the
\* presence pulse and every read returns a genuine image with a correct CRC.
SoakStep ==
    \E d \in TickSteps :
        wire_mgr_main([ presence |-> TRUE, rom |-> GenuineRom,
                        sp |-> GenuineScratchpad, d |-> d ])

InitSoak ==
    /\ Init
    /\ cfg = [ is_crc |-> TRUE, is_fake_allowed |-> FALSE,
               resolution |-> WIRE_12BIT_RESOLUTION ]

SpecSoak == InitSoak /\ [][SoakStep]_vars

\* Every temperature register pair under the power-on alarm bytes, each with
\* its correct CRC byte.
Readings ==
    { WithCrc(<<lsb, msb, 75, 70, 127, 255, 0, 16>>) : lsb \in 0..255, msb \in 0..255 }

\* The first conversion cycle on a healthy bus with a genuine device, up to
\* the record of its outcome: the result read may return any reading.
FirstReadingStep ==
    /\ wire_mgr_log[LOG_SUCCESS] = 0
    /\ \E sp \in IF state = READ_CONVERSION_RESULT
                 THEN Readings ELSE {GenuineScratchpad} :
          wire_mgr_main([ presence |-> TRUE, rom |-> GenuineRom,
                          sp |-> sp, d |-> CONVERSION_TIME_11BIT ])

SpecFirstReading == InitSoak /\ [][FirstReadingStep]_vars

\* The two bytes of an int16_t in memory, and the int16_t two bytes make.
LowByte(v) == (v + 65536) % 256
HighByte(v) == ((v + 65536) \div 256) % 256
FromBytes(hi, lo) ==
    LET u == hi * 256 + lo
    IN  IF u >= 32768 THEN u - 65536 ELSE u

\* Every static but temperature, and the history of the engine.
statics ==
    << cfg, state, old_state, is_sensor_ready, result, wire_mgr_log,
       conversion_time, elapsed, scratchpad, rom_code, bus, assert_failed,
       begun, converted, programmed, collected, collected_reading >>

\* The handler that returned r executed "temperature = get_temperature(...)".
AssignsTemperature(r) ==
    \/ state = WIRE_READ_SCRATCHPAD /\ r.new_state = WIRE_WRITE_SCRATCHPAD
    \/ state = READ_CONVERSION_RESULT /\ r.result = LOG_SUCCESS

\* The readings of a genuine device whose temperature changes.
TwoReadings ==
    { GenuineScratchpad, WithCrc(<<94, 255, 30, 246, 127, 255, 0, 16>>) }

\* The task function runs up to its store to temperature, where it can be
\* interrupted between the two byte stores of the 16-bit value; a step that
\* does not assign temperature is of no concern to the reader and is taken
\* whole.
TaskBegin ==
    /\ pending = << >>
    /\ \E sp \in TwoReadings :
         LET in == [ presence |-> TRUE, rom |-> GenuineRom,
                     sp |-> sp, d |-> CONVERSION_TIME_11BIT ]
         IN  \E r \in {Dispatch(in)} :
               IF AssignsTemperature(r)
               THEN /\ pending' = <<[r |-> r, in |-> in, todo |-> {0, 1}]>>
                    /\ composed' = composed \cup {r.temperature}
                    /\ UNCHANGED <<block, block_crc, statics, temperature, reader>>
               ELSE /\ Commit(r, in)
                    /\ Bounded'
                    /\ UNCHANGED <<pending, reader, composed>>

\* One byte store of the assignment to temperature: byte 0 is the low byte.
\* The order of the two stores is the compiler's choice.
StoreByte(k) ==
    /\ pending # << >>
    /\ k \in pending[1].todo
    /\ temperature' =
          IF k = 0
          THEN FromBytes(HighByte(temperature), LowByte(pending[1].r.temperature))
          ELSE FromBytes(HighByte(pending[1].r.temperature), LowByte(temperature))
    /\ pending' = <<[pending[1] EXCEPT !.todo = @ \ {k}]>>
    /\ UNCHANGED <<block, block_crc, statics, reader, composed>>

\* The rest of the interrupted step: result, is_sensor_ready, old_state, state.
TaskEnd ==
    /\ pending # << >>
    /\ pending[1].todo = {}
    /\ Commit(pending[1].r, pending[1].in)
    /\ Bounded'
    /\ pending' = << >>
    /\ UNCHANGED <<reader, composed>>

\* WIRE_MGR_get_temperature is called: it tests is_sensor_ready.
ReaderCall ==
    /\ reader.pc # "loading"
    /\ reader' = [pc |-> IF is_sensor_ready THEN "loading" ELSE "false",
                  lo |-> -1, hi |-> -1]
    /\ UNCHANGED <<block, block_crc, statics, temperature, pending, composed>>

\* One byte load of "*out = temperature"; after the second the call returns
\* true.
ReaderLoad(k) ==
    /\ reader.pc = "loading"
    /\ \/ /\ k = 0
          /\ reader.lo = -1
          /\ reader' = [reader EXCEPT !.lo = LowByte(temperature),
                                      !.pc = IF reader.hi # -1 THEN "true" ELSE @]
       \/ /\ k = 1
          /\ reader.hi = -1
          /\ reader' = [reader EXCEPT !.hi = HighByte(temperature),
                                      !.pc = IF reader.lo # -1 THEN "true" ELSE @]
    /\ UNCHANGED <<block, block_crc, statics, temperature, pending, composed>>

PreemptNext ==
    \/ TaskBegin
    \/ \E k \in {0, 1} : StoreByte(k)
    \/ TaskEnd
    \/ ReaderCall
    \/ \E k \in {0, 1} : ReaderLoad(k)

\* The engine and an application that calls WIRE_MGR_get_temperature from
\* another execution context, interleaved at single byte accesses.
SpecPreempt == InitSoak /\ [][PreemptNext]_vars

\* The bytes of a block after its first byte, which ranges over all bytes.
TailBytes == {0, 255}

\* calc_crc_block from seed 0 over a block grown by one byte: the loop folds
\* the new byte into the CRC of the bytes before it.
CrcFold ==
    /\ Len(block) < MaxBlock
    /\ \E data \in IF block = << >> THEN 0..255 ELSE TailBytes :
          /\ block' = Append(block, data)
          /\ block_crc' = calc_crc_block(0, Append(block, data), Len(block) + 1)
    /\ UNCHANGED <<statics, temperature, pending, reader, composed>>

\* calc_crc_block applied to blocks of 1..MaxBlock bytes.
SpecCrc == InitSoak /\ [][CrcFold]_vars

TypeOK ==
    /\ state \in WIRE_state_t
    /\ old_state \in WIRE_state_t
    /\ is_sensor_ready \in BOOLEAN
    /\ result \in 0..255
    /\ \A k \in 0..(LOG_SENTINEL - 1) : wire_mgr_log[k] \in 0..(CounterModulus - 1)
    /\ temperature \in -32768..32767
    /\ elapsed \in 0..MaxElapsed

(* ------------------------------------------------------------ properties *)

\* The states whose step starts with WIRE_reset.
ResetStates ==
    { WIRE_READ_ROM, WIRE_READ_SCRATCHPAD, WIRE_WRITE_SCRATCHPAD,
      START_CONVERSION, READ_CONVERSION_RESULT }

\* Number of bus resets in a bus trace.
Resets(b) == Cardinality({ i \in 1..Len(b) : b[i].op = "reset" })

\* The step that left the bus trace b saw the presence pulse.
Present(b) == Len(b) >= 1 /\ b[1] = Reset(TRUE)

\* The scratchpad image sp has a correct CRC byte.
CrcOk(sp) == is_crc_valid(sp, 8, scratchpad_crc(sp))

\* The scratchpad image sp carries the reserved bytes of genuine silicon.
ReservedOk(sp) == is_reserved_values_valid(reserved1(sp), reserved3(sp))

\* C1: WIRE_MGR_get_temperature returns false before the first
\* READ_CONVERSION_RESULT step that ends in success, and whenever the engine
\* is in WIRE_ERROR_STATE.
C1_NotReadyBeforeSuccessOrFaulted ==
    /\ ~collected => ~WIRE_MGR_get_temperature.ret
    /\ state = WIRE_ERROR_STATE => ~WIRE_MGR_get_temperature.ret

\* C1 witness: the engine is faulted after a fake-sensor rejection was logged
\* and a step was taken in the error state.
C1_Witness ==
    /\ state = WIRE_ERROR_STATE
    /\ old_state = WIRE_ERROR_STATE
    /\ wire_mgr_log[LOG_FAKE_SENSOR_ERROR] = 1
    /\ ~collected
    /\ ~WIRE_MGR_get_temperature.ret

\* C2 as originally stated: whenever WIRE_MGR_get_temperature returns true the
\* outcome most recently set is success.
C2_Original_ReadyOnlyAfterSuccessfulCycle ==
    WIRE_MGR_get_temperature.ret => result = LOG_SUCCESS

\* C2 amended: whenever WIRE_MGR_get_temperature returns true some earlier
\* READ_CONVERSION_RESULT step ended in success, and a step that sets the
\* outcome to CRC error or no presence leaves the readiness as it was.
C2_ReadyLatchedByFirstSuccess ==
    [][ /\ WIRE_MGR_get_temperature.ret' => collected'
        /\ ( /\ state' = LOG_CONVERSION_RESULT
             /\ state # LOG_CONVERSION_RESULT
             /\ result' \in {LOG_CRC_ERROR, LOG_NO_PRESENCE_ERROR} )
           => is_sensor_ready' = is_sensor_ready ]_vars

\* C2 witness: a result read failed its CRC check after an earlier success and
\* the temperature is still published.
C2_Witness ==
    /\ state = LOG_CONVERSION_RESULT
    /\ old_state = READ_CONVERSION_RESULT
    /\ result = LOG_CRC_ERROR
    /\ collected
    /\ WIRE_MGR_get_temperature.ret

\* C3 as stated: with fake sensors disallowed, once a fake-sensor rejection
\* has been logged the engine is faulted, not ready, and sends no command.
C3_FakeRejectionEscalates ==
    (~cfg.is_fake_allowed /\ wire_mgr_log[LOG_FAKE_SENSOR_ERROR] > 0)
        => /\ state = WIRE_ERROR_STATE
           /\ ~is_sensor_ready
           /\ Commands(bus, CONVERT_T) = 0

\* C4: a WIRE_READ_SCRATCHPAD read with a correct CRC and wrong reserved
\* bytes is rejected as fake when fakes are disallowed and accepted like a
\* genuine one when they are allowed; a later result read that passes its CRC
\* check reports success; with fakes allowed nothing is ever rejected as fake
\* and the error state is never entered.
C4_FakeSensorGating ==
    [][ \E sp \in {scratchpad'} :
        /\ ( /\ state = WIRE_READ_SCRATCHPAD
             /\ Present(bus')
             /\ CrcOk(sp)
             /\ ~ReservedOk(sp) )
           => IF cfg.is_fake_allowed
              THEN /\ state' = WIRE_WRITE_SCRATCHPAD
                   /\ result' = result
                   /\ temperature' = get_temperature(temp_msb(sp), temp_lsb(sp))
              ELSE /\ state' = LOG_CONVERSION_RESULT
                   /\ result' = LOG_FAKE_SENSOR_ERROR
        /\ ( /\ state = READ_CONVERSION_RESULT
             /\ Present(bus')
             /\ CrcOk(sp) )
           => /\ state' = LOG_CONVERSION_RESULT
              /\ result' = LOG_SUCCESS
        /\ cfg.is_fake_allowed
           => /\ wire_mgr_log'[LOG_FAKE_SENSOR_ERROR] = 0
              /\ result' # LOG_FAKE_SENSOR_ERROR
              /\ state' # WIRE_ERROR_STATE ]_vars

\* C4 witness: with fakes allowed, the acquisition read returned wrong
\* reserved bytes under a correct CRC and the engine went on to program the
\* device, keeping the temperature of that read.
C4_Witness ==
    /\ cfg.is_fake_allowed
    /\ old_state = WIRE_READ_SCRATCHPAD
    /\ state = WIRE_WRITE_SCRATCHPAD
    /\ CrcOk(scratchpad)
    /\ ~ReservedOk(scratchpad)
    /\ temperature = get_temperature(temp_msb(scratchpad), temp_lsb(scratchpad))

\* C5: a step in one of the five bus states performs exactly one reset, first;
\* without presence it does nothing else on the bus, sets the outcome to no
\* presence and goes to LOG_CONVERSION_RESULT; the steps of the other states
\* perform no reset.
C5_OneResetThenNoPresenceRoute ==
    [][ IF state \in ResetStates
        THEN /\ Resets(bus') = 1
             /\ bus'[1].op = "reset"
             /\ bus'[1] = Reset(FALSE)
                  => /\ Len(bus') = 1
                     /\ result' = LOG_NO_PRESENCE_ERROR
                     /\ state' = LOG_CONVERSION_RESULT
        ELSE Resets(bus') = 0 ]_vars

\* C5 witness: a result read found no presence: one reset, nothing else.
C5_Witness ==
    /\ old_state = READ_CONVERSION_RESULT
    /\ state = LOG_CONVERSION_RESULT
    /\ result = LOG_NO_PRESENCE_ERROR
    /\ bus = <<Reset(FALSE)>>

\* The states of the acquisition phase.
AcquisitionStates ==
    { WIRE_READ_ROM, WIRE_READ_SCRATCHPAD, WIRE_WRITE_SCRATCHPAD }

\* The engine has entered START_CONVERSION, now or earlier.
Entered == begun \/ state = START_CONVERSION

\* C6: once the engine has entered START_CONVERSION no step is taken in an
\* acquisition state again, whatever the outcomes; the cycle runs
\* START_CONVERSION, WAIT_FOR_CONVERTION, READ_CONVERSION_RESULT,
\* LOG_CONVERSION_RESULT and back to START_CONVERSION.
C6_SteadyStateNeverReacquires ==
    [][ Entered =>
          /\ state \notin AcquisitionStates
          /\ state' \notin AcquisitionStates
          /\ state = START_CONVERSION /\ Present(bus')
                => state' = WAIT_FOR_CONVERTION
          /\ state = START_CONVERSION /\ ~Present(bus')
                => state' = LOG_CONVERSION_RESULT
          /\ state = WAIT_FOR_CONVERTION
                => state' \in {WAIT_FOR_CONVERTION, READ_CONVERSION_RESULT}
          /\ state = READ_CONVERSION_RESULT => state' = LOG_CONVERSION_RESULT
          /\ state = LOG_CONVERSION_RESULT => state' = START_CONVERSION ]_vars

\* C6 witness: back in START_CONVERSION after a successful cycle, a cycle with
\* a CRC error and a cycle without presence.
C6_Witness ==
    /\ begun
    /\ state = START_CONVERSION
    /\ old_state = LOG_CONVERSION_RESULT
    /\ wire_mgr_log[LOG_SUCCESS] >= 1
    /\ wire_mgr_log[LOG_CRC_ERROR] >= 1
    /\ wire_mgr_log[LOG_NO_PRESENCE_ERROR] >= 1

\* The identification code rom passes the checks of handle_read_rom.
RomAccepted(rom) ==
    /\ cfg.is_crc => is_crc_valid(rom, 7, rom_crc(rom))
    /\ ~cfg.is_fake_allowed =>
          /\ family_code(rom) = FAMILY_CODE
          /\ serial_no(rom, 4) = 0
          /\ serial_no(rom, 5) = 0

\* C7 as stated: at the first step that sends CONVERT_T the identification
\* code has passed its checks and the resolution mask has been written to the
\* device exactly once.
C7_ProgrammedOnceBeforeFirstConversion ==
    [][ (~converted /\ converted') =>
          \E rom \in {rom_code} : RomAccepted(rom) /\ programmed = 1 ]_vars

\* C8: WIRE_ERROR_STATE is absorbing: a step taken in it stays in it, does
\* nothing on the bus, changes no counter and leaves the readiness false.
C8_FaultedIsAbsorbing ==
    [][ state = WIRE_ERROR_STATE =>
          /\ state' = WIRE_ERROR_STATE
          /\ bus' = << >>
          /\ wire_mgr_log' = wire_mgr_log
          /\ ~is_sensor_ready
          /\ ~is_sensor_ready' ]_vars

\* C8 witness: a step has been taken in WIRE_ERROR_STATE.
C8_Witness ==
    /\ old_state = WIRE_ERROR_STATE
    /\ state = WIRE_ERROR_STATE
    /\ bus = << >>
    /\ ~is_sensor_ready

\* The environment causes no further failure: its budget is used up.
Healthy == Failures = MaxFaults

\* A fake-sensor rejection raised by WIRE_READ_ROM waits to be escalated.
Escalating ==
    /\ state = LOG_CONVERSION_RESULT
    /\ result = LOG_FAKE_SENSOR_ERROR
    /\ old_state \in {WIRE_SENTINEL_STATE, WIRE_READ_ROM}

\* A success has been recorded and the temperature is published.
Published == is_sensor_ready /\ wire_mgr_log[LOG_SUCCESS] > 0

\* C9: under fair scheduling, from any point at which the bus has become
\* healthy and the engine is neither faulted nor about to be, a success is
\* eventually recorded and the readiness becomes true; every step leaves the
\* engine in one of its eight real states.
C9_TransientFailuresSelfHeal ==
    /\ [](state # WIRE_SENTINEL_STATE /\ ~assert_failed)
    /\ (Healthy /\ state # WIRE_ERROR_STATE /\ ~Escalating) ~> Published

\* C9 witness: a success is published after a CRC error and a missing
\* presence have both been recorded.
C9_Witness ==
    /\ Published
    /\ result = LOG_SUCCESS
    /\ wire_mgr_log[LOG_CRC_ERROR] = 1
    /\ wire_mgr_log[LOG_NO_PRESENCE_ERROR] = 1

\* C10 as stated: no step decreases any of the four outcome counters.
C10_CountersNeverDecrease ==
    [][ \A k \in 0..(LOG_SENTINEL - 1) : wire_mgr_log'[k] >= wire_mgr_log[k] ]_vars

\* v is the signed 16-bit value with high byte msb and low byte lsb: its
\* two's complement bit pattern is msb:lsb and its sign is bit 7 of msb.
IsSigned16Of(v, msb, lsb) ==
    /\ v \in -32768..32767
    /\ (v + 65536) % 65536 = msb * 256 + lsb
    /\ (v < 0) <=> (msb >= 128)

\* C11: after a READ_CONVERSION_RESULT step that ends in success,
\* WIRE_MGR_get_temperature returns true and the signed 16-bit value whose
\* high byte is scratchpad byte 1 and whose low byte is scratchpad byte 0, for
\* every byte pair; the step is taken only after more than 750 ticks (12-bit),
\* and the reading 0x50, 0x05 is published as 0x0550.
C11_PublishedIsComposedReading ==
    [][ ( /\ state = READ_CONVERSION_RESULT
          /\ state' = LOG_CONVERSION_RESULT
          /\ result' = LOG_SUCCESS )
        => /\ elapsed > CONVERSION_TIME_12BIT
           /\ WIRE_MGR_get_temperature'.ret
           /\ Len(WIRE_MGR_get_temperature'.out) = 1
           /\ IsSigned16Of(WIRE_MGR_get_temperature'.out[1],
                           scratchpad'[2], scratchpad'[1])
           /\ (scratchpad' = GenuineScratchpad)
                 => WIRE_MGR_get_temperature'.out = <<1360>> ]_vars

\* C11 witness: the reading 0x50, 0x05 was collected after more than 750
\* ticks and 0x0550 is published.
C11_Witness ==
    /\ old_state = READ_CONVERSION_RESULT
    /\ state = LOG_CONVERSION_RESULT
    /\ result = LOG_SUCCESS
    /\ elapsed > CONVERSION_TIME_12BIT
    /\ scratchpad = GenuineScratchpad
    /\ WIRE_MGR_get_temperature = [ret |-> TRUE, out |-> <<1360>>]

\* C12 as stated: every call of WIRE_MGR_get_temperature that returns true
\* yields a value the engine composed in full from one scratchpad read.
C12_NoTornRead ==
    reader.pc = "true" => FromBytes(reader.hi, reader.lo) \in composed

\* C13: the state after a LOG_CONVERSION_RESULT step depends only on the
\* state that routed to it and on the outcome: after WIRE_READ_ROM (or the
\* sentinel) it is WIRE_ERROR_STATE for a fake-sensor rejection and
\* WIRE_READ_ROM otherwise; after any other state it is START_CONVERSION for
\* every outcome.
C13_ReportOutcomeRouting ==
    [][ state = LOG_CONVERSION_RESULT =>
          /\ old_state \in { WIRE_SENTINEL_STATE, WIRE_READ_ROM,
                              WIRE_READ_SCRATCHPAD, WIRE_WRITE_SCRATCHPAD,
                              START_CONVERSION, READ_CONVERSION_RESULT }
          /\ old_state \in {WIRE_SENTINEL_STATE, WIRE_READ_ROM}
                => state' = IF result = LOG_FAKE_SENSOR_ERROR
                            THEN WIRE_ERROR_STATE ELSE WIRE_READ_ROM
          /\ old_state \notin {WIRE_SENTINEL_STATE, WIRE_READ_ROM}
                => state' = START_CONVERSION ]_vars

\* C13 witness: a fake-sensor rejection raised after WIRE_READ_ROM had passed
\* was recorded and the engine went on to START_CONVERSION.
C13_Witness ==
    /\ old_state = LOG_CONVERSION_RESULT
    /\ state = START_CONVERSION
    /\ result = LOG_FAKE_SENSOR_ERROR
    /\ wire_mgr_log[LOG_FAKE_SENSOR_ERROR] = 1

\* The conversion-time budgets of 9, 10, 11 and 12 bits, as documented.
Budget == <<94, 188, 375, 750>>

\* C14: READ_CONVERSION_RESULT is entered only by a WAIT_FOR_CONVERTION step
\* at which the ticks elapsed since the last START_CONVERSION step exceed the
\* budget of the configured resolution (94, 188, 375, 750, strictly
\* increasing); while the elapsed ticks do not exceed it the engine stays in
\* WAIT_FOR_CONVERTION; a WAIT_FOR_CONVERTION step does nothing on the bus.
C14_CollectOnlyAfterBudget ==
    [][ /\ conversion_time = Budget[cfg.resolution + 1]
        /\ \A k \in 1..3 :
              get_resolution_conv_time(k - 1) < get_resolution_conv_time(k)
        /\ state' = READ_CONVERSION_RESULT
              => /\ state = WAIT_FOR_CONVERTION
                 /\ elapsed' > Budget[cfg.resolution + 1]
        /\ state = WAIT_FOR_CONVERTION
              => /\ bus' = << >>
                 /\ elapsed' <= Budget[cfg.resolution + 1]
                       => state' = WAIT_FOR_CONVERTION ]_vars

\* C14 witness: at 12 bits the engine is still waiting when exactly 750 ticks
\* have elapsed.
C14_Witness ==
    /\ cfg.resolution = WIRE_12BIT_RESOLUTION
    /\ old_state = WAIT_FOR_CONVERTION
    /\ state = WAIT_FOR_CONVERTION
    /\ elapsed = 750
    /\ bus = << >>

\* The bit-serial Dallas/Maxim CRC-8 (x^8 + x^5 + x^4 + 1, LSB first): one
\* shift of the register, eight shifts, and the fold of a byte sequence from
\* seed 0.  140 is the reflected polynomial 0x8C.
ShiftOnce == [x \in 0..255 |-> IF x % 2 = 1 THEN Xor(x \div 2, 140) ELSE x \div 2]

ShiftByte ==
    [x \in 0..255 |->
        ShiftOnce[ShiftOnce[ShiftOnce[ShiftOnce[
        ShiftOnce[ShiftOnce[ShiftOnce[ShiftOnce[x]]]]]]]]]

RECURSIVE SerialCrcFrom(_, _, _)
SerialCrcFrom(crc, bytes, i) ==
    IF i > Len(bytes)
    THEN crc
    ELSE LET next == ShiftByte[Xor(crc, bytes[i])]
         IN  SerialCrcFrom(next, bytes, i + 1)

SerialCrc(bytes) == SerialCrcFrom(0, bytes, 1)

\* The last byte of image differs from the CRC-8 of the bytes before it.
BadTrailingCrc(image) ==
    SerialCrc(SubSeq(image, 1, Len(image) - 1)) # image[Len(image)]

\* C15: a step sets the outcome CRC error exactly when is_crc is set and the
\* identification code or scratchpad it has just read ends in a byte that
\* differs from the CRC-8 of the bytes before it; the step then performs no
\* genuineness check and leaves temperature and readiness alone.  With is_crc
\* clear no CRC error is ever set and the data is treated as it would be with
\* a correct CRC byte.
C15_CrcErrorExactlyOnBadCrc ==
    [][ \E rom \in {rom_code'}, sp \in {scratchpad'} :
        LET bad == /\ Present(bus')
                   /\ \/ state = WIRE_READ_ROM /\ BadTrailingCrc(rom)
                      \/ /\ state \in {WIRE_READ_SCRATCHPAD, READ_CONVERSION_RESULT}
                         /\ BadTrailingCrc(sp)
            sets == /\ state \in ResetStates
                    /\ state' = LOG_CONVERSION_RESULT
                    /\ result' = LOG_CRC_ERROR
        IN  /\ sets <=> (cfg.is_crc /\ bad)
            /\ sets => /\ temperature' = temperature
                       /\ is_sensor_ready' = is_sensor_ready
            /\ ~cfg.is_crc =>
                  /\ result' # LOG_CRC_ERROR
                  /\ wire_mgr_log'[LOG_CRC_ERROR] = 0
                  /\ (bad /\ state = READ_CONVERSION_RESULT)
                        => /\ result' = LOG_SUCCESS
                           /\ temperature' = FromBytes(sp[2], sp[1])
                  /\ (bad /\ state = WIRE_READ_SCRATCHPAD
                          /\ (ReservedOk(sp) \/ cfg.is_fake_allowed))
                        => state' = WIRE_WRITE_SCRATCHPAD
                  /\ (bad /\ state = WIRE_READ_ROM /\ cfg.is_fake_allowed)
                        => state' = WIRE_READ_SCRATCHPAD ]_vars

\* C15 witness: with is_crc set and fakes disallowed, the acquisition read
\* returned wrong reserved bytes under a wrong CRC byte and the outcome is
\* the CRC error, not the fake-sensor rejection.
C15_Witness ==
    /\ cfg.is_crc
    /\ ~cfg.is_fake_allowed
    /\ old_state = WIRE_READ_SCRATCHPAD
    /\ state = LOG_CONVERSION_RESULT
    /\ result = LOG_CRC_ERROR
    /\ BadTrailingCrc(scratchpad)
    /\ ~ReservedOk(scratchpad)

\* C16 as stated: a LOG_CONVERSION_RESULT step adds exactly 1 to the counter
\* of the outcome set by the step that routed to it and leaves the other
\* three alone; a step in any other state leaves all four counters alone.
C16_ExactlyOneCounterPlusOne ==
    [][ IF state = LOG_CONVERSION_RESULT
        THEN /\ result \in 0..(LOG_SENTINEL - 1)
             /\ wire_mgr_log'[result] = wire_mgr_log[result] + 1
             /\ \A k \in 0..(LOG_SENTINEL - 1) \ {result} :
                   wire_mgr_log'[k] = wire_mgr_log[k]
        ELSE wire_mgr_log' = wire_mgr_log ]_vars

\* The step is a READ_CONVERSION_RESULT step that ends in success.
CollectsWithSuccess ==
    /\ state = READ_CONVERSION_RESULT
    /\ state' = LOG_CONVERSION_RESULT
    /\ result' = LOG_SUCCESS

\* C17 as stated: temperature changes only in a READ_CONVERSION_RESULT step
\* that ends in success, readiness becomes true only in such a step and false
\* only in a WIRE_ERROR_STATE step.
C17_Original_OverwrittenOnlyOnSuccess ==
    [][ /\ temperature' # temperature => CollectsWithSuccess
        /\ (~is_sensor_ready /\ is_sensor_ready') => CollectsWithSuccess
        /\ (is_sensor_ready /\ ~is_sensor_ready') => state = WIRE_ERROR_STATE ]_vars

\* C17 amended: temperature changes only in a READ_CONVERSION_RESULT step that
\* ends in success or in a WIRE_READ_SCRATCHPAD step that passes its checks,
\* and the latter happens only while readiness is false; readiness becomes
\* true only in a READ_CONVERSION_RESULT step that ends in success and false
\* only in a WIRE_ERROR_STATE step; what WIRE_MGR_get_temperature returns
\* changes only in a READ_CONVERSION_RESULT step that ends in success.
C17_OverwrittenOnSuccessOrAcquisition ==
    [][ /\ temperature' # temperature
              => \/ CollectsWithSuccess
                 \/ /\ state = WIRE_READ_SCRATCHPAD
                    /\ state' = WIRE_WRITE_SCRATCHPAD
                    /\ ~is_sensor_ready
                    /\ ~is_sensor_ready'
        /\ (~is_sensor_ready /\ is_sensor_ready') => CollectsWithSuccess
        /\ (is_sensor_ready /\ ~is_sensor_ready') => state = WIRE_ERROR_STATE
        /\ WIRE_MGR_get_temperature' # WIRE_MGR_get_temperature
              => CollectsWithSuccess ]_vars

\* C17 witness: the acquisition read has stored a temperature that is not
\* published.
C17_Witness ==
    /\ old_state = WIRE_READ_SCRATCHPAD
    /\ state = WIRE_WRITE_SCRATCHPAD
    /\ temperature = -162
    /\ ~is_sensor_ready
    /\ ~WIRE_MGR_get_temperature.ret

\* The bus trace b sends at least one byte.
SendsBytes(b) == \E i \in 1..Len(b) : b[i].op = "send"

\* The operations from..to of the bus trace b are byte reads.
AllReads(b, from, to) == \A i \in from..to : b[i].op = "read"

\* The resolution masks of 9, 10, 11 and 12 bits, as documented.
Mask == <<31, 63, 95, 127>>

\* C18: the bus trace of every step that sends bytes is one reset with
\* presence followed by exactly one of: 0x33 and 8 reads; 0xCC, 0xBE and 9
\* reads; 0xCC, 0x4E, the bytes th and tl as the WIRE_READ_SCRATCHPAD step
\* just before read them, and the mask of the configured resolution; 0xCC,
\* 0x44.  So a function command always follows a reset and 0xCC in its step
\* and the only addressing commands are 0x33 and 0xCC.
C18_BusTraceShapes ==
    [][ \E b \in {bus'} :
        SendsBytes(b) =>
          /\ b[1] = [op |-> "reset", val |-> 1]
          /\ Resets(b) = 1
          /\ \/ /\ state = WIRE_READ_ROM
                /\ Len(b) = 10
                /\ b[2] = [op |-> "send", val |-> 51]
                /\ AllReads(b, 3, 10)
             \/ /\ state \in {WIRE_READ_SCRATCHPAD, READ_CONVERSION_RESULT}
                /\ Len(b) = 12
                /\ b[2] = [op |-> "send", val |-> 204]
                /\ b[3] = [op |-> "send", val |-> 190]
                /\ AllReads(b, 4, 12)
             \/ /\ state = WIRE_WRITE_SCRATCHPAD
                /\ old_state = WIRE_READ_SCRATCHPAD
                /\ Len(bus) = 12
                /\ AllReads(bus, 4, 12)
                /\ b = << [op |-> "reset", val |-> 1],
                          [op |-> "send", val |-> 204],
                          [op |-> "send", val |-> 78],
                          [op |-> "send", val |-> bus[6].val],
                          [op |-> "send", val |-> bus[7].val],
                          [op |-> "send", val |-> Mask[cfg.resolution + 1]] >>
             \/ /\ state = START_CONVERSION
                /\ b = << [op |-> "reset", val |-> 1],
                          [op |-> "send", val |-> 204],
                          [op |-> "send", val |-> 68] >> ]_vars

\* C18 witness: at 11 bits the alarm bytes 0x1E and 0xF6 read during the
\* acquisition have been written back with the mask 0x5F.
C18_Witness ==
    /\ cfg.resolution = WIRE_11BIT_RESOLUTION
    /\ old_state = WIRE_WRITE_SCRATCHPAD
    /\ state = START_CONVERSION
    /\ bus = << [op |-> "reset", val |-> 1],
                [op |-> "send", val |-> 204],
                [op |-> "send", val |-> 78],
                [op |-> "send", val |-> 30],
                [op |-> "send", val |-> 246],
                [op |-> "send", val |-> 95] >>

\* C19: for every byte b, calc_crc(0, b) is the bit-serial Dallas/Maxim CRC-8
\* of b, and for every non-empty block folding the block followed by its own
\* CRC byte from seed 0 yields 0.
C19_TableIsDallasCrc ==
    /\ Len(block) = 1 =>
          \E b \in {block[1]} :
              calc_crc(0, b) = ShiftByte[b] /\ block_crc = ShiftByte[b]
    /\ Len(block) >= 1 =>
          /\ block_crc = SerialCrc(block)
          /\ calc_crc_block(0, Append(block, block_crc), Len(block) + 1) = 0

\* C19 witness: a block of 8 bytes with a non-zero CRC byte folds to 0 when
\* that byte is appended.
C19_Witness ==
    /\ Len(block) = 8
    /\ block[1] = 80
    /\ block_crc # 0
    /\ calc_crc_block(0, Append(block, block_crc), 9) = 0

\* C20: no ASSERT(false) is executed: every step starts and ends in one of the
\* eight real states, only the five states of handle_reset_needed_state reset
\* the bus, and a step that routes to LOG_CONVERSION_RESULT is a step of one
\* of those five states that has just set result to one of the four outcomes
\* (no presence exactly when the reset found none), so that
\* LOG_CONVERSION_RESULT runs with a defined outcome set one step earlier.
C20_NoAssertReachable ==
    [][ /\ ~assert_failed'
        /\ cfg.resolution \in 0..3
        /\ state \in WIRE_state_t \ {WIRE_SENTINEL_STATE}
        /\ state' \in WIRE_state_t \ {WIRE_SENTINEL_STATE}
        /\ Resets(bus') > 0 => state \in ResetStates
        /\ state' = LOG_CONVERSION_RESULT
              => /\ state \in ResetStates
                 /\ result' \in 0..(LOG_SENTINEL - 1)
                 /\ (result' = LOG_NO_PRESENCE_ERROR) <=> ~Present(bus')
                 /\ (result' = LOG_SUCCESS) => state = READ_CONVERSION_RESULT
                 /\ (result' = LOG_FAKE_SENSOR_ERROR)
                       => state \in {WIRE_READ_ROM, WIRE_READ_SCRATCHPAD}
        /\ state = LOG_CONVERSION_RESULT
              => /\ old_state \in ResetStates
                 /\ result \in 0..(LOG_SENTINEL - 1) ]_vars

\* C20 witness: an outcome set by a WIRE_WRITE_SCRATCHPAD step without
\* presence has been recorded after an earlier CRC error, with no assertion
\* failed.
C20_Witness ==
    /\ old_state = LOG_CONVERSION_RESULT
    /\ state = START_CONVERSION
    /\ result = LOG_NO_PRESENCE_ERROR
    /\ programmed = 0
    /\ wire_mgr_log[LOG_NO_PRESENCE_ERROR] = 1
    /\ wire_mgr_log[LOG_CRC_ERROR] = 1
    /\ ~assert_failed

\* C21: whenever readiness is true the stored temperature is the value
\* composed from the scratchpad read by the most recent READ_CONVERSION_RESULT
\* step that ended in success; WIRE_READ_SCRATCHPAD is never the state once
\* such a step has been taken, so its store to temperature happens only while
\* readiness is false.
C21_ReadyTemperatureIsLastCollected ==
    /\ is_sensor_ready =>
          /\ Len(collected_reading) = 2
          /\ temperature = FromBytes(collected_reading[1], collected_reading[2])
    /\ (collected \/ old_state = READ_CONVERSION_RESULT)
          => state # WIRE_READ_SCRATCHPAD
    /\ state = WIRE_READ_SCRATCHPAD => ~is_sensor_ready
    /\ old_state = WIRE_READ_SCRATCHPAD => ~is_sensor_ready

\* C21 witness: after a success that read 0xFF5E a result read of 0x0550
\* failed its CRC check; the published temperature is still -162.
C21_Witness ==
    /\ is_sensor_ready
    /\ old_state = READ_CONVERSION_RESULT
    /\ state = LOG_CONVERSION_RESULT
    /\ result = LOG_CRC_ERROR
    /\ collected_reading = <<255, 94>>
    /\ <<temp_msb(scratchpad), temp_lsb(scratchpad)>> = <<5, 80>>
    /\ temperature = -162
====
